---- MODULE Spec2Model ----
(***************************************************************************)
(* A model of ms_graphrag_neo4j: the MsGraphRAG query adapter, the         *)
(* semaphore-bounded LLM fan-out of the three pipeline stages, and the     *)
(* Cypher statements the stages run against the graph store.               *)
(***************************************************************************)
EXTENDS Integers, Sequences, FiniteSets, TLC

(***************************************************************************)
(* Bounds of the model.                                                    *)
(***************************************************************************)
MaxWorkers == 1
MaxTexts == 2
MaxChunks == 2
MaxLevels == 2
MaxRawId == 1
MaxCalls == 2
MaxRecords == 2
MaxCloseFailures == 2

VARIABLES
    attrs,                  \* names of the attributes the instance has
    max_workers,            \* self.max_workers
    create_constraints,     \* whether __init__ created the uniqueness constraints
    defaultSessionParams,   \* the dict object that is the default of query(session_params={})
    lastQuery,              \* what the most recent direct call of query() did
    op,                     \* the stage invocation in progress
    graph,                  \* the graph store
    calls,                  \* how many stage invocations there have been, up to MaxCalls
    ctor,                   \* what the call of __init__ did
    parsed,                 \* a call of parse_extraction_output: its argument and result
    driver,                 \* the Neo4j driver handed to __init__
    lastTeardown            \* what the most recent close(), __exit__ or __del__ did

vars == <<attrs, max_workers, create_constraints, defaultSessionParams,
          lastQuery, op, graph, calls, ctor, parsed, driver, lastTeardown>>

(***************************************************************************)
(* Small helpers.                                                          *)
(***************************************************************************)
EmptyDict == [k \in {} |-> ""]

SeqToSet(s) == {s[i] : i \in 1..Len(s)}

RECURSIVE SumOver(_, _)
SumOver(S, f) ==
    IF S = {} THEN 0
    ELSE LET x == CHOOSE y \in S : TRUE IN f[x] + SumOver(S \ {x}, f)

(***************************************************************************)
(* Store errors and their classification (MsGraphRAG.query, the except     *)
(* clause).  A message is a sequence of words, or absent.                  *)
(***************************************************************************)
ExecutionFailed == "Neo.DatabaseError.Statement.ExecutionFailed"
TransactionStartFailed == "Neo.DatabaseError.Transaction.TransactionStartFailed"
SemanticError == "Neo.ClientError.Statement.SemanticError"
SyntaxError == "Neo.ClientError.Statement.SyntaxError"
ConstraintValidationFailed == "Neo.ClientError.Schema.ConstraintValidationFailed"

ImplicitPhrase == <<"in", "an", "implicit", "transaction">>
OpenPhrase == <<"in", "an", "open", "transaction", "is", "not", "possible">>
ExplicitPhrase == <<"tried", "to", "execute", "in", "an", "explicit", "transaction">>

NoMessage == [isNone |-> TRUE, words |-> <<>>]
Message(w) == [isNone |-> FALSE, words |-> w]

\* Python's `phrase in message` on strings, at the granularity of words.
Contains(phrase, msg) ==
    \E i \in 1..(Len(msg.words) - Len(phrase) + 1) :
        SubSeq(msg.words, i, i + Len(phrase) - 1) = phrase

Neo4jError(code, msg) == [kind |-> "Neo4jError", code |-> code, message |-> msg]
DriverError == [kind |-> "DriverError", code |-> "", message |-> NoMessage]
AttributeError == [kind |-> "AttributeError", code |-> "timeout", message |-> NoMessage]
ClosedError == [kind |-> "RuntimeError", code |-> "closed", message |-> NoMessage]
NoError == [kind |-> "none", code |-> "", message |-> NoMessage]

isCallInTransactionErrorNoMessageCheck(e) ==
    e.code = ExecutionFailed \/ e.code = TransactionStartFailed

isCallInTransactionError(e) ==
    /\ (e.code = ExecutionFailed \/ e.code = TransactionStartFailed)
    /\ ~e.message.isNone
    /\ Contains(ImplicitPhrase, e.message)

isPeriodicCommitError(e) ==
    /\ e.code = SemanticError
    /\ ~e.message.isNone
    /\ (Contains(OpenPhrase, e.message) \/ Contains(ExplicitPhrase, e.message))

(***************************************************************************)
(* MsGraphRAG.check_driver_state and MsGraphRAG.query.                    *)
(*                                                                         *)
(* given/dict: whether the caller passed session_params, and the dict it   *)
(* passed.  auto, sess: what the store answers to driver.execute_query     *)
(* and to session.run: [err |-> an error or NoError, rows |-> a value].    *)
(* shared is the dict object bound to the parameter's default.             *)
(* The result records what was called, what came back and the default dict *)
(* as the call leaves it.                                                  *)
(***************************************************************************)
check_driver_state(a) == "_driver" \in a

QueryResult(autoCalls, sessOpened, sessRuns, usedDb, rows, raised, shared) ==
    [autoCalls |-> autoCalls, sessOpened |-> sessOpened, sessRuns |-> sessRuns,
     sessDatabase |-> usedDb, rows |-> rows, raised |-> raised, shared |-> shared]

\* lines 439-442: the explicit-session strategy.
session_fallback(a, database, given, dict, sess, shared, autoCalls) ==
    LET sp == IF given THEN dict ELSE shared
        sp2 == IF "database" \in DOMAIN sp THEN sp
               ELSE [k \in DOMAIN sp \cup {"database"} |->
                        IF k = "database" THEN database ELSE sp[k]]
        shared2 == IF given THEN shared ELSE sp2
    IN  IF "timeout" \notin a
        THEN QueryResult(autoCalls, 1, 0, sp2["database"], <<>>, AttributeError, shared2)
        ELSE IF sess.err # NoError
        THEN QueryResult(autoCalls, 1, 1, sp2["database"], <<>>, sess.err, shared2)
        ELSE QueryResult(autoCalls, 1, 1, sp2["database"], sess.rows, NoError, shared2)

query(a, database, given, dict, auto, sess, shared) ==
    LET sp == IF given THEN dict ELSE shared IN
    IF ~check_driver_state(a)
    THEN QueryResult(0, 0, 0, "", <<>>, ClosedError, shared)
    ELSE IF DOMAIN sp = {}
    THEN IF auto.err = NoError
         THEN QueryResult(1, 0, 0, "", auto.rows, NoError, shared)
         ELSE IF auto.err.kind # "Neo4jError"
         THEN QueryResult(1, 0, 0, "", <<>>, auto.err, shared)
         ELSE IF ~(isCallInTransactionError(auto.err) \/ isPeriodicCommitError(auto.err))
         THEN QueryResult(1, 0, 0, "", <<>>, auto.err, shared)
         ELSE session_fallback(a, database, given, dict, sess, shared, 1)
    ELSE session_fallback(a, database, given, dict, sess, shared, 0)

(***************************************************************************)
(* utils.get_hash: the MD5 hex digest of the UTF-8 bytes of the text, for  *)
(* the texts of the model.                                                 *)
(***************************************************************************)
Texts == {"a", "b"}

get_hash(text) ==
    CASE text = "a" -> "0cc175b9c0f1b6a831c399e269772661"
      [] text = "b" -> "92eb5ffee6ae2fec3ad71c777531578f"
      [] text = "c" -> "4a8a08f09d37b73795649038408b5f33"

(***************************************************************************)
(* utils.parse_extraction_output.                                          *)
(*                                                                         *)
(* A Python string is a sequence of pieces: a piece is a delimiter, a      *)
(* marker, a parenthesis, a whitespace character, or a run of other        *)
(* characters (a word).  The string is the concatenation of its pieces.    *)
(***************************************************************************)
Whitespace == {" ", "\n", "\t"}

CompletionMarker == "{completion_delimiter}"
RecordMarker == "{record_delimiter}"
TupleMarker == "{tuple_delimiter}"

\* str.strip()
RECURSIVE lstrip(_)
lstrip(str) ==
    IF str # <<>> /\ Head(str) \in Whitespace THEN lstrip(Tail(str)) ELSE str

RECURSIVE rstrip(_)
rstrip(str) ==
    IF str # <<>> /\ str[Len(str)] \in Whitespace
    THEN rstrip(SubSeq(str, 1, Len(str) - 1)) ELSE str

strip(str) == rstrip(lstrip(str))

\* str.split(sep): the parts between the occurrences of sep, at least one part
RECURSIVE split(_, _)
split(str, sep) ==
    IF sep \notin SeqToSet(str) THEN <<str>>
    ELSE LET i == CHOOSE k \in 1..Len(str) :
                      str[k] = sep /\ \A j \in 1..(k - 1) : str[j] # sep
         IN <<SubSeq(str, 1, i - 1)>> \o split(SubSeq(str, i + 1, Len(str)), sep)

\* the string a sequence of pieces stands for
RECURSIVE Join(_)
Join(str) == IF str = <<>> THEN "" ELSE Head(str) \o Join(Tail(str))

\* lines 55-58
without_completion_marker(output_str) ==
    strip(SelectSeq(output_str, LAMBDA piece : piece # CompletionMarker))

\* lines 61-68
detect_record_delimiter(output_str) ==
    IF RecordMarker \in SeqToSet(output_str) THEN RecordMarker
    ELSE IF "|" \in SeqToSet(output_str) THEN "|"
    ELSE "\n"

\* lines 71-77
detect_tuple_delimiter(output_str) ==
    IF TupleMarker \in SeqToSet(output_str) THEN TupleMarker
    ELSE IF ";" \in SeqToSet(output_str) THEN ";"
    ELSE "\t"

\* a list comprehension [x.strip() for x in parts]
stripped(parts) == [i \in 1..Len(parts) |-> strip(parts[i])]

\* lines 88-90
unparenthesized(rec) ==
    IF rec # <<>> /\ Head(rec) = "(" /\ rec[Len(rec)] = ")"
    THEN strip(SubSeq(rec, 2, Len(rec) - 1))
    ELSE strip(rec)

joined(parts) == [i \in 1..Len(parts) |-> Join(parts[i])]

\* line 93: the stripped tokens of one record
tokens_of(rec, tuple_delimiter) ==
    joined(stripped(split(unparenthesized(rec), tuple_delimiter)))

\* lines 80-93: the token lists of the records that are not empty
token_lists(recs, tuple_delimiter) ==
    [i \in 1..Len(recs) |-> tokens_of(recs[i], tuple_delimiter)]

raw_records(output_str) ==
    SelectSeq(stripped(split(output_str, detect_record_delimiter(output_str))),
              LAMBDA rec : rec # <<>>)

\* str.strip(chars) on a string, character by character
RECURSIVE lstrip_chars(_, _)
lstrip_chars(token, chars) ==
    IF Len(token) > 0 /\ SubSeq(token, 1, 1) \in chars
    THEN lstrip_chars(SubSeq(token, 2, Len(token)), chars) ELSE token

RECURSIVE rstrip_chars(_, _)
rstrip_chars(token, chars) ==
    IF Len(token) > 0 /\ SubSeq(token, Len(token), Len(token)) \in chars
    THEN rstrip_chars(SubSeq(token, 1, Len(token) - 1), chars) ELSE token

strip_chars(token, chars) == rstrip_chars(lstrip_chars(token, chars), chars)

\* str.lower(), on the ASCII letters
RECURSIVE lower(_)
lower(token) ==
    LET upper_case == "ABCDEFGHIJKLMNOPQRSTUVWXYZ"
        lower_case == "abcdefghijklmnopqrstuvwxyz"
        letters == 1..Len(upper_case)
        lower_char(c) ==
            IF \E k \in letters : SubSeq(upper_case, k, k) = c
            THEN LET k == CHOOSE k \in letters : SubSeq(upper_case, k, k) = c
                 IN SubSeq(lower_case, k, k)
            ELSE c
    IN IF Len(token) = 0 THEN ""
       ELSE lower_char(SubSeq(token, 1, 1)) \o lower(SubSeq(token, 2, Len(token)))

\* line 97: tokens[0].strip(" \"'").lower()
rec_type(token) == lower(strip_chars(token, {" ", "\"", "'"}))

\* float(token), then int when it has no fractional part; the token itself
\* when float() raises ValueError
coerce_strength_float_only(token) ==
    CASE token \in {"8", "8.0"} -> [type |-> "float", value |-> "8.0"]
      [] token = "8.5" -> [type |-> "float", value |-> "8.5"]
      [] token = "1e2" -> [type |-> "float", value |-> "100.0"]
      [] token = "-3" -> [type |-> "float", value |-> "-3.0"]
      [] token = "8_0" -> [type |-> "float", value |-> "80.0"]
      [] token \in {"inf", "1e999"} -> [type |-> "float", value |-> "inf"]
      [] token = "nan" -> [type |-> "float", value |-> "nan"]
      [] OTHER -> [type |-> "str", value |-> token]

coerce_strength(token) ==
    CASE token = "8" -> [type |-> "int", value |-> "8"]
      [] token = "8.0" -> [type |-> "int", value |-> "8"]
      [] token = "8.5" -> [type |-> "float", value |-> "8.5"]
      [] token = "1e2" -> [type |-> "int", value |-> "100"]
      [] token = "-3" -> [type |-> "int", value |-> "-3"]
      [] token = "8_0" -> [type |-> "int", value |-> "80"]
      [] token = "inf" -> [type |-> "float", value |-> "inf"]
      [] token = "1e999" -> [type |-> "float", value |-> "inf"]
      [] token = "nan" -> [type |-> "float", value |-> "nan"]
      [] OTHER -> [type |-> "str", value |-> token]

parse_record_lenient(tokens) ==
    IF rec_type(tokens[1]) = "entity"
    THEN IF Len(tokens) < 4 THEN <<>>
         ELSE << [record_type |-> "entity", entity_name |-> tokens[2],
                  entity_type |-> tokens[3], entity_description |-> tokens[4]] >>
    ELSE IF rec_type(tokens[1]) = "relationship"
    THEN IF Len(tokens) < 5 THEN <<>>
         ELSE << [record_type |-> "relationship", source_entity |-> tokens[2],
                  target_entity |-> tokens[3], relationship_description |-> tokens[4],
                  relationship_strength |-> coerce_strength(tokens[5])] >>
    ELSE <<>>

parse_record(tokens) ==
    IF rec_type(tokens[1]) = "entity"
    THEN IF Len(tokens) # 4 THEN <<>>
         ELSE << [record_type |-> "entity", entity_name |-> tokens[2],
                  entity_type |-> tokens[3], entity_description |-> tokens[4]] >>
    ELSE IF rec_type(tokens[1]) = "relationship"
    THEN IF Len(tokens) # 5 THEN <<>>
         ELSE << [record_type |-> "relationship", source_entity |-> tokens[2],
                  target_entity |-> tokens[3], relationship_description |-> tokens[4],
                  relationship_strength |-> coerce_strength(tokens[5])] >>
    ELSE <<>>

RECURSIVE parsed_records(_)
parsed_records(records) ==
    IF records = <<>> THEN <<>>
    ELSE parse_record(Head(records)) \o parsed_records(Tail(records))

\* lines 133-137
partition(recs) ==
    [nodes |-> SelectSeq(recs, LAMBDA el : el.record_type = "entity"),
     relationships |-> SelectSeq(recs, LAMBDA el : el.record_type = "relationship")]

\* lines 60-137, on the text without its completion marker
parse_stripped(str) ==
    partition(parsed_records(token_lists(raw_records(str), detect_tuple_delimiter(str))))

parse_extraction_output(output_str) == parse_stripped(without_completion_marker(output_str))

(***************************************************************************)
(* The graph store.                                                        *)
(*   chunks        the __Chunk__ nodes, in creation order                  *)
(*   mentions      MENTIONS edges <<index of the chunk node, entity name>> *)
(*   entOrder      the names of the __Entity__ nodes, in creation order    *)
(*                 (the order elementId compares by)                       *)
(*   description   per entity, its description list; <<>> when the         *)
(*                 property is null                                        *)
(*   labels        per entity, its labels other than __Entity__            *)
(*   rels          the RELATIONSHIP edges, in creation order               *)
(*   summary       per entity, its summary, "null" when absent             *)
(*   sumRels       the SUMMARIZED_RELATIONSHIP edges                       *)
(*   communities   per entity, the array written by Leiden; <<>> when null *)
(*   commNodes     the __Community__ nodes [id, level, report, copy]       *)
(*   entComm       IN_COMMUNITY edges from an entity to a community        *)
(*   commComm      IN_COMMUNITY edges from a community to a community      *)
(* An IN_COMMUNITY edge is [src, dst, copy], its ends given by entity name *)
(* and community id.  copy numbers the nodes that share an id and the      *)
(* edges that share both ends, so that the store can hold duplicates.      *)
(***************************************************************************)
Names == {"A", "B"}

EmptyGraph ==
    [chunks |-> <<>>, mentions |-> {}, entOrder |-> <<>>,
     description |-> [n \in Names |-> <<>>],
     labels |-> [n \in Names |-> {}],
     rels |-> <<>>,
     summary |-> [n \in Names |-> "null"],
     sumRels |-> <<>>,
     communities |-> [n \in Names |-> <<>>],
     commNodes |-> {}, entComm |-> {}, commComm |-> {}]

Ok(g, rows) == [g |-> g, err |-> NoError, rows |-> rows]
Failed(g, e) == [g |-> g, err |-> e, rows |-> <<>>]

create_entity(g, name) == [g EXCEPT !.entOrder = Append(@, name)]

\* MERGE (n:__Entity__ {name: name})
merge_entity(g, name) ==
    IF name \in SeqToSet(g.entOrder) THEN g
    ELSE [g EXCEPT !.entOrder = Append(@, name)]

\* import_nodes_query, one row of the UNWIND, for the chunk node at index c
import_node_row(g, c, row) ==
    LET g1 == merge_entity(g, row.entity_name) IN
    [g1 EXCEPT !.labels[row.entity_name] = @ \cup {row.entity_type},
               !.description[row.entity_name] = @ \o <<row.entity_description>>,
               !.mentions = @ \cup {<<c, row.entity_name>>}]

RECURSIVE import_node_rows(_, _, _)
import_node_rows(g, c, data) ==
    IF data = <<>> THEN g
    ELSE import_node_rows(import_node_row(g, c, Head(data)), c, Tail(data))

\* import_nodes_query.  CREATE of a second chunk node with the same id fails
\* under the uniqueness constraint of __init__, and the statement changes
\* nothing.
import_nodes_query(g, text, chunk_id, data, constrained) ==
    IF constrained /\ \E i \in 1..Len(g.chunks) : g.chunks[i].id = chunk_id
    THEN Failed(g, Neo4jError(ConstraintValidationFailed, Message(<<"already", "exists">>)))
    ELSE LET g1 == [g EXCEPT !.chunks = Append(@, [id |-> chunk_id, text |-> text])]
         IN Ok(import_node_rows(g1, Len(g1.chunks), data), <<>>)

import_relationship_row_merged(g, row) ==
    LET g1 == merge_entity(merge_entity(g, row.source_entity), row.target_entity)
        edge == [source |-> row.source_entity, target |-> row.target_entity,
                 description |-> row.relationship_description,
                 strength |-> row.relationship_strength]
    IN IF edge \in SeqToSet(g1.rels) THEN g1 ELSE [g1 EXCEPT !.rels = Append(@, edge)]

\* import_relationships_query, one row
import_relationship_row(g, row) ==
    LET g1 == merge_entity(merge_entity(g, row.source_entity), row.target_entity) IN
    [g1 EXCEPT !.rels = Append(@, [source |-> row.source_entity,
                                   target |-> row.target_entity,
                                   description |-> row.relationship_description,
                                   strength |-> row.relationship_strength])]

RECURSIVE import_relationship_rows(_, _)
import_relationship_rows(g, data) ==
    IF data = <<>> THEN g
    ELSE import_relationship_rows(import_relationship_row(g, Head(data)), Tail(data))

import_relationships_query(g, data) == Ok(import_relationship_rows(g, data), <<>>)

(***************************************************************************)
(* The statements of summarize_nodes_and_rels.                             *)
(***************************************************************************)
\* candidate_nodes_summarization
candidate_nodes_summarization(g) ==
    LET hit == SelectSeq(g.entOrder, LAMBDA n : Len(g.description[n]) > 1) IN
    Ok(g, [i \in 1..Len(hit) |->
              [entity_name |-> hit[i], description_list |-> g.description[hit[i]]]])

\* The RELATIONSHIP edges between s and t, in either direction.
EdgesBetween(g, s, t) ==
    SelectSeq(g.rels, LAMBDA r : \/ (r.source = s /\ r.target = t)
                                  \/ (r.source = t /\ r.target = s))

\* The ordered pairs <<s, t>> with elementId(s) < elementId(t), in match order.
RECURSIVE OrderedPairs(_, _, _)
OrderedPairs(g, i, j) ==
    IF i > Len(g.entOrder) THEN <<>>
    ELSE IF j > Len(g.entOrder) THEN OrderedPairs(g, i + 1, i + 2)
    ELSE <<<<g.entOrder[i], g.entOrder[j]>>>> \o OrderedPairs(g, i, j + 1)

\* candidate_rels_summarization
candidate_rels_summarization(g) ==
    LET hit == SelectSeq(OrderedPairs(g, 1, 2),
                         LAMBDA p : Len(EdgesBetween(g, p[1], p[2])) > 1) IN
    Ok(g, [i \in 1..Len(hit) |->
              [source |-> hit[i][1], target |-> hit[i][2],
               description_list |->
                  [k \in 1..Len(EdgesBetween(g, hit[i][1], hit[i][2])) |->
                      EdgesBetween(g, hit[i][1], hit[i][2])[k].description]]])

\* import_entity_summary
RECURSIVE import_entity_summary_rows(_, _)
import_entity_summary_rows(g, data) ==
    IF data = <<>> THEN g
    ELSE LET row == Head(data)
             g1 == IF row.entity \in SeqToSet(g.entOrder)
                   THEN [g EXCEPT !.summary[row.entity] = row.summary]
                   ELSE g
         IN import_entity_summary_rows(g1, Tail(data))

import_entity_summary(g, data) == Ok(import_entity_summary_rows(g, data), <<>>)

import_entity_summary_every(g) ==
    Ok([g EXCEPT !.summary =
           [n \in Names |->
               IF n \in SeqToSet(g.entOrder) /\ Len(g.description[n]) >= 1
               THEN g.description[n][1] ELSE g.summary[n]]], <<>>)

\* import_entity_summary_single
import_entity_summary_single(g) ==
    Ok([g EXCEPT !.summary =
           [n \in Names |->
               IF n \in SeqToSet(g.entOrder) /\ Len(g.description[n]) = 1
               THEN g.description[n][1] ELSE g.summary[n]]], <<>>)

\* (s)-[:SUMMARIZED_RELATIONSHIP]-(t), in either direction
Summarized(g, s, t) ==
    \E i \in 1..Len(g.sumRels) :
        \/ (g.sumRels[i].source = s /\ g.sumRels[i].target = t)
        \/ (g.sumRels[i].source = t /\ g.sumRels[i].target = s)

\* MERGE (s)-[r:SUMMARIZED_RELATIONSHIP]-(t) SET r.summary = summary
merge_summarized(g, s, t, summary) ==
    IF Summarized(g, s, t)
    THEN [g EXCEPT !.sumRels =
             [i \in 1..Len(g.sumRels) |->
                 IF \/ (g.sumRels[i].source = s /\ g.sumRels[i].target = t)
                    \/ (g.sumRels[i].source = t /\ g.sumRels[i].target = s)
                 THEN [g.sumRels[i] EXCEPT !.summary = summary]
                 ELSE g.sumRels[i]]]
    ELSE [g EXCEPT !.sumRels = Append(@, [source |-> s, target |-> t, summary |-> summary])]

\* import_rel_summary
RECURSIVE import_rel_summary_rows(_, _)
import_rel_summary_rows(g, data) ==
    IF data = <<>> THEN g
    ELSE LET row == Head(data)
             g1 == IF {row.source, row.target} \subseteq SeqToSet(g.entOrder)
                   THEN merge_summarized(g, row.source, row.target, row.summary)
                   ELSE g
         IN import_rel_summary_rows(g1, Tail(data))

import_rel_summary(g, data) == Ok(import_rel_summary_rows(g, data), <<>>)

\* import_rel_summary_single: the rows are matched against the store as the
\* statement finds it, then merged one by one in match order; each edge is
\* matched from both of its ends.
RECURSIVE import_rel_summary_single_rows(_, _)
import_rel_summary_single_rows(g, edges) ==
    IF edges = <<>> THEN g
    ELSE LET e == Head(edges)
             g1 == merge_summarized(g, e.source, e.target, e.description)
             g2 == merge_summarized(g1, e.target, e.source, e.description)
         IN import_rel_summary_single_rows(g2, Tail(edges))

import_rel_summary_single(g) ==
    Ok(import_rel_summary_single_rows(
           g, SelectSeq(g.rels, LAMBDA e : ~Summarized(g, e.source, e.target))), <<>>)

(***************************************************************************)
(* The statements of summarize_communities.                                *)
(***************************************************************************)
Digit(d) ==
    CASE d = 0 -> "0" [] d = 1 -> "1" [] d = 2 -> "2" [] d = 3 -> "3" [] d = 4 -> "4"
      [] d = 5 -> "5" [] d = 6 -> "6" [] d = 7 -> "7" [] d = 8 -> "8" [] d = 9 -> "9"

\* Cypher toString of a non-negative integer, as a sequence of characters
RECURSIVE toString(_)
toString(n) == IF n < 10 THEN <<Digit(n)>> ELSE toString(n \div 10) \o <<Digit(n % 10)>>

community_id_unqualified(index, raw) == toString(raw)

\* toString(index) + '-' + toString(e.communities[index])
community_id(index, raw) == toString(index) \o <<"-">> \o toString(raw)

HasCommunity(g, id) == \E c \in g.commNodes : c.id = id

create_community(g, index, raw) ==
    [g EXCEPT !.commNodes =
        @ \cup {[id |-> community_id(index, raw), level |-> index, report |-> "null",
                 copy |-> 1 + Cardinality({c \in g.commNodes :
                                             c.id = community_id(index, raw)})]}]

\* MERGE (c:__Community__ {id: ...}) ON CREATE SET c.level = index
merge_community(g, index, raw) ==
    IF HasCommunity(g, community_id(index, raw)) THEN g
    ELSE [g EXCEPT !.commNodes =
             @ \cup {[id |-> community_id(index, raw), level |-> index,
                      report |-> "null", copy |-> 1]}]

\* MERGE (e)-[:IN_COMMUNITY]->(c)
merge_entity_edge(g, name, c) ==
    IF \E e \in g.entComm : e.src = name /\ e.dst = c THEN g
    ELSE [g EXCEPT !.entComm = @ \cup {[src |-> name, dst |-> c, copy |-> 1]}]

\* MERGE (previous)-[:IN_COMMUNITY]->(current)
merge_parent_edge(g, previous, current) ==
    IF \E e \in g.commComm : e.src = previous /\ e.dst = current THEN g
    ELSE [g EXCEPT !.commComm = @ \cup {[src |-> previous, dst |-> current, copy |-> 1]}]

\* community_hierarchy_query, the two subqueries for one entity and one index
\* (index counts from 0; the arrays of the model count from 1)
hierarchy_row(g, name, index) ==
    LET arr == g.communities[name] IN
    IF index = 0
    THEN merge_entity_edge(merge_community(g, 0, arr[1]), name, community_id(0, arr[1]))
    ELSE merge_parent_edge(
             merge_community(merge_community(g, index, arr[index + 1]), index - 1, arr[index]),
             community_id(index - 1, arr[index]),
             community_id(index, arr[index + 1]))

RECURSIVE hierarchy_rows(_, _, _)
hierarchy_rows(g, k, index) ==
    IF k > Len(g.entOrder) THEN g
    ELSE IF index > Len(g.communities[g.entOrder[k]]) - 1 THEN hierarchy_rows(g, k + 1, 0)
    ELSE hierarchy_rows(hierarchy_row(g, g.entOrder[k], index), k, index + 1)

community_hierarchy_query(g) == Ok(hierarchy_rows(g, 1, 0), <<>>)

\* create_gds_graph_query: the projection holds the ends of the RELATIONSHIP edges
Projected(g) == {g.rels[i].source : i \in 1..Len(g.rels)}
                    \cup {g.rels[i].target : i \in 1..Len(g.rels)}

\* What gds.leiden.write may produce for the projection: one array per
\* projected entity, all of the same length, each level a coarsening of the
\* one before.
LeidenOutputs(g) ==
    UNION { { [ranLevels |-> L, arr |-> f] :
                f \in { h \in [Projected(g) -> [1..L -> 0..MaxRawId]] :
                          \A a, b \in Projected(g) : \A i \in 1..(L - 1) :
                              h[a][i] = h[b][i] => h[a][i + 1] = h[b][i + 1] } } :
            L \in 1..MaxLevels }

\* leiden_query with the outcome out.  Without a projected graph the call fails.
leiden_query(g, out) ==
    IF Projected(g) = {}
    THEN Failed(g, Neo4jError("Neo.ClientError.Procedure.ProcedureCallFailed",
                              Message(<<"graph", "entity", "does", "not", "exist">>)))
    ELSE Ok([g EXCEPT !.communities =
                [n \in Names |-> IF n \in Projected(g) THEN out.arr[n] ELSE g.communities[n]]],
            <<[ranLevels |-> out.ranLevels,
               communityCount |->
                   Cardinality({out.arr[n][out.ranLevels] : n \in Projected(g)})]>>)

\* The number of IN_COMMUNITY paths from the entity to the community c.
RECURSIVE PathCount(_, _, _)
PathCount(g, name, c) ==
    LET direct == Cardinality({e \in g.entComm : e.src = name /\ e.dst = c})
        below == {e \in g.commComm : e.dst = c}
    IN direct + SumOver(below, [e \in below |-> PathCount(g, name, e.src)])

Repeat(x, n) == [i \in 1..n |-> x]

\* collect(e) for the community c: one element per path
RECURSIVE Members(_, _, _)
Members(g, c, k) ==
    IF k > Len(g.entOrder) THEN <<>>
    ELSE Repeat(g.entOrder[k], PathCount(g, g.entOrder[k], c)) \o Members(g, c, k + 1)

RECURSIVE SetToSeq(_)
SetToSeq(S) ==
    IF S = {} THEN <<>>
    ELSE LET x == CHOOSE y \in S : TRUE IN <<x>> \o SetToSeq(S \ {x})

\* community_info_query; a row carries the community id and the collected
\* member entities
community_info_query(g, levels) ==
    LET hit == SetToSeq({c \in g.commNodes :
                            /\ c.level \in levels
                            /\ Len(Members(g, c.id, 1)) > 1}) IN
    Ok(g, [i \in 1..Len(hit) |->
              [communityId |-> hit[i].id, nodes |-> Members(g, hit[i].id, 1)]])

\* import_community_summary
RECURSIVE import_community_summary_rows(_, _)
import_community_summary_rows(g, data) ==
    IF data = <<>> THEN g
    ELSE LET row == Head(data)
             g1 == IF HasCommunity(g, row.communityId) THEN g
                   ELSE [g EXCEPT !.commNodes =
                            @ \cup {[id |-> row.communityId, level |-> -1,
                                     report |-> "null", copy |-> 1]}]
             g2 == [g1 EXCEPT !.commNodes =
                       { IF c.id = row.communityId
                         THEN [c EXCEPT !.report = row.community] ELSE c : c \in @ }]
         IN import_community_summary_rows(g2, Tail(data))

import_community_summary(g, data) == Ok(import_community_summary_rows(g, data), <<>>)

(***************************************************************************)
(* Running statements through MsGraphRAG.query from a stage.               *)
(* A statement is a record naming the query text and carrying its params.  *)
(* A context is the store, the default session_params dict, the number of  *)
(* driver calls so far, the error raised so far and the rows last returned.*)
(***************************************************************************)
DatabaseName == "neo4j"

Statement(g, st, constrained) ==
    CASE st.q = "import_nodes_query" ->
            import_nodes_query(g, st.text, st.chunk_id, st.data, constrained)
      [] st.q = "import_relationships_query" -> import_relationships_query(g, st.data)
      [] st.q = "candidate_nodes_summarization" -> candidate_nodes_summarization(g)
      [] st.q = "candidate_rels_summarization" -> candidate_rels_summarization(g)
      [] st.q = "import_entity_summary" -> import_entity_summary(g, st.data)
      [] st.q = "import_entity_summary_single" -> import_entity_summary_single(g)
      [] st.q = "import_rel_summary" -> import_rel_summary(g, st.data)
      [] st.q = "import_rel_summary_single" -> import_rel_summary_single(g)
      [] st.q = "drop_gds_graph_query" -> Ok(g, <<>>)
      [] st.q = "create_gds_graph_query" -> Ok(g, <<>>)
      [] st.q = "leiden_query" -> leiden_query(g, st.out)
      [] st.q = "community_hierarchy_query" -> community_hierarchy_query(g)
      [] st.q = "community_info_query" -> community_info_query(g, st.levels)
      [] st.q = "import_community_summary" -> import_community_summary(g, st.data)

Context(g, shared) == [g |-> g, shared |-> shared, calls |-> 0, err |-> NoError, rows |-> <<>>]

\* what the store answers to the driver call that carries the statement
store_answer(out) == [err |-> out.err, rows |-> out.rows]

\* the context after a call of self.query: the statement takes effect only
\* when the call did not raise
after_query(ctx, out, q) ==
    [g |-> IF q.raised = NoError THEN out.g ELSE ctx.g,
     shared |-> q.shared,
     calls |-> ctx.calls + q.autoCalls + q.sessOpened,
     err |-> q.raised,
     rows |-> q.rows]

\* self.query(statement, params=...) where out is the statement's outcome
run_statement(ctx, a, out) ==
    after_query(ctx, out, query(a, DatabaseName, FALSE, EmptyDict,
                                store_answer(out), store_answer(out), ctx.shared))

\* self.query(statement, params=...): nothing more runs once a call has raised
run_query(ctx, a, st, constrained) ==
    IF ctx.err # NoError THEN ctx
    ELSE run_statement(ctx, a, Statement(ctx.g, st, constrained))

RECURSIVE run_queries(_, _, _, _)
run_queries(ctx, a, stmts, constrained) ==
    IF stmts = <<>> THEN ctx
    ELSE run_queries(run_query(ctx, a, Head(stmts), constrained), a, Tail(stmts), constrained)

(***************************************************************************)
(* extract_json (utils.py): strip the code fence, decode the JSON text.    *)
(* A response is a sequence of tokens; a JSON document is one token, and   *)
(* the fence markers are written with ' for the backquote character.       *)
(***************************************************************************)
JsonDocuments == {"{\"title\": \"T1\"}", "{\"title\": \"T2\"}"}

extract_json(content) ==
    LET a == IF content # <<>> /\ Head(content) = "'''json" THEN Tail(content) ELSE content
        b == IF a # <<>> /\ a[Len(a)] = "'''" THEN SubSeq(a, 1, Len(a) - 1) ELSE a
    IN IF Len(b) = 1 /\ b[1] \in JsonDocuments
       THEN [ok |-> TRUE, value |-> b[1]]
       ELSE [ok |-> FALSE, value |-> "JSONDecodeError"]

(***************************************************************************)
(* What the LLM may answer.                                                *)
(***************************************************************************)
EntityA == <<"(", "\"entity\"", ";", "A", ";", "Person", ";", "dA", ")">>
EntityB == <<"(", "\"entity\"", ";", "B", ";", "Person", ";", "dB", ")">>
RelationshipAB == <<"(", "\"relationship\"", ";", "A", ";", "B", ";", "knows", ";", "8", ")">>
EntityShort == <<"(", "\"entity\"", ";", "A", ";", "Person", ")">>
EventA == <<"(", "\"event\"", ";", "A", ";", "Person", ";", "dA", ")">>

FullResponse ==
    EntityA \o <<"\n">> \o EntityB \o <<"\n">> \o RelationshipAB \o <<CompletionMarker>>

ExtractResponses ==
    { FullResponse,
      EntityA \o <<"\n">> \o RelationshipAB,
      EntityShort \o <<"\n">> \o EventA }

SummaryResponses == {"s1", "s2"}

ReportResponses ==
    { <<"'''json", "{\"title\": \"T1\"}", "'''">>, <<"{\"title\": \"T2\"}">>, <<"Sorry">> }

LlmError == [kind |-> "APIError", code |-> "", message |-> NoMessage]
DecodeError == [kind |-> "JSONDecodeError", code |-> "", message |-> NoMessage]

ResponsesOf(kind) ==
    CASE kind = "extract" -> ExtractResponses
      [] kind \in {"summarize_nodes", "summarize_rels"} -> SummaryResponses
      [] kind = "communities" -> ReportResponses

\* process_text, process_node, process_rel, process_community: what the unit
\* returns for its input and the content of the LLM response
process_unit(kind, input, content) ==
    CASE kind = "extract" -> [ok |-> TRUE, value |-> parse_extraction_output(content)]
      [] kind = "summarize_nodes" ->
            [ok |-> TRUE, value |-> [entity |-> input.entity_name, summary |-> content]]
      [] kind = "summarize_rels" ->
            [ok |-> TRUE, value |-> [source |-> input.source, target |-> input.target,
                                     summary |-> content]]
      [] kind = "communities" ->
            [ok |-> extract_json(content).ok,
             value |-> [community |-> extract_json(content).value,
                        communityId |-> input.communityId]]

(***************************************************************************)
(* A stage invocation.                                                     *)
(*   kind      extract, summarize_nodes, summarize_rels or communities     *)
(*   phase     idle, llm (waiting for its units), done or raised           *)
(*   inputs    the inputs of the units, by position                        *)
(*   ustate    per unit: pending, inflight, done or failed                 *)
(*   produced  per unit, the value it returned                             *)
(*   finished  the units whose task has ended and which the stage has not  *)
(*             yet been handed by as_completed, in the order they ended,   *)
(*             each with the exception it ended with                       *)
(*   results   extract: the units in the order results.append saw them     *)
(*   permits   the value of the semaphore                                  *)
(*   llmCalls, storeCalls   requests issued by this invocation             *)
(*   startedClosed   whether the instance was closed when it was called    *)
(*   before    summarize_communities: the communities arrays as the call   *)
(*             found them                                                  *)
(***************************************************************************)
IdleOp ==
    [kind |-> "none", phase |-> "idle", inputs |-> <<>>, ustate |-> <<>>,
     produced |-> <<>>, finished |-> <<>>, results |-> <<>>, permits |-> 0,
     bounded |-> FALSE,
     llmCalls |-> 0,
     storeCalls |-> 0, startedClosed |-> FALSE, raised |-> NoError, ret |-> <<>>,
     summaries |-> <<>>, before |-> <<>>]

\* the coroutines of one fan-out, and the semaphore when max_workers is truthy
new_units(o, kind, inputs, mw) ==
    [o EXCEPT !.kind = kind, !.phase = "llm", !.inputs = inputs,
              !.ustate = [i \in 1..Len(inputs) |-> "pending"],
              !.produced = [i \in 1..Len(inputs) |-> <<>>],
              !.finished = <<>>,
              !.results = <<>>,
              !.bounded = (mw # 0),
              !.permits = mw]

raise(o, ctx) ==
    [o EXCEPT !.phase = "raised", !.raised = ctx.err, !.storeCalls = @ + ctx.calls]

Min(x, y) == IF x < y THEN x ELSE y

\* extract_nodes_and_rels, lines 185-194: the statements of the import loop
\* over zip(input_texts, results)
import_statements(o) ==
    [i \in 1..(2 * Min(Len(o.inputs), Len(o.results))) |->
        LET k == (i + 1) \div 2
            output == o.produced[o.results[k]]
        IN IF i % 2 = 1
           THEN [q |-> "import_nodes_query", text |-> o.inputs[k],
                 chunk_id |-> get_hash(o.inputs[k]), data |-> output.nodes]
           ELSE [q |-> "import_relationships_query", data |-> output.relationships]]

total_relationships(o) ==
    LET n == Min(Len(o.inputs), Len(o.results)) IN
    SumOver(1..n, [k \in 1..n |-> Len(o.produced[o.results[k]].relationships)])

\* summarize_nodes_and_rels, lines 281-287
summary_statements(o) ==
    << [q |-> "import_entity_summary", data |-> o.summaries],
       [q |-> "import_entity_summary_single"],
       [q |-> "import_rel_summary", data |-> o.produced],
       [q |-> "import_rel_summary_single"] >>

\* a call of self.query raised: the stage raises
stage_raised(o, ctx) == [op |-> raise(o, ctx), g |-> ctx.g, shared |-> ctx.shared]

\* the stage returns ret, unless one of its last calls of self.query raised
stage_done(o, ctx, ret) ==
    IF ctx.err # NoError THEN stage_raised(o, ctx)
    ELSE [op |-> [o EXCEPT !.phase = "done", !.storeCalls = @ + ctx.calls, !.ret = ret],
          g |-> ctx.g, shared |-> ctx.shared]

RECURSIVE continue_stage(_, _, _, _, _, _)

\* A fan-out of no units returns at once.
fan_out(o, g, shared, a, mw, constrained) ==
    IF Len(o.inputs) = 0 THEN continue_stage(o, g, shared, a, mw, constrained)
    ELSE [op |-> o, g |-> g, shared |-> shared]

\* the fan-out over the rows that the calls of self.query so far returned
next_fan_out(o, kind, ctx, a, mw, constrained) ==
    IF ctx.err # NoError THEN stage_raised(o, ctx)
    ELSE fan_out([new_units(o, kind, ctx.rows, mw) EXCEPT !.storeCalls = @ + ctx.calls],
                 ctx.g, ctx.shared, a, mw, constrained)

\* What a stage does once it has been handed the value of every unit of its
\* fan-out, up to its next suspension: its return, its raise, or its next
\* fan-out.
continue_stage(o, g, shared, a, mw, constrained) ==
    CASE o.kind = "extract" ->
            stage_done(o, run_queries(Context(g, shared), a, import_statements(o),
                                      constrained),
                       <<"Successfuly extracted and imported", total_relationships(o),
                         "relationships">>)
      [] o.kind = "summarize_nodes" ->
            next_fan_out([o EXCEPT !.summaries = o.produced], "summarize_rels",
                         run_query(Context(g, shared), a,
                                   [q |-> "candidate_rels_summarization"], constrained),
                         a, mw, constrained)
      [] o.kind = "summarize_rels" ->
            stage_done(o, run_queries(Context(g, shared), a, summary_statements(o),
                                      constrained),
                       <<"Successfuly summarized nodes and relationships">>)
      [] o.kind = "communities" ->
            stage_done(o, run_query(Context(g, shared), a,
                                    [q |-> "import_community_summary", data |-> o.produced],
                                    constrained),
                       <<"Generated", Len(o.produced), "community summaries">>)

StartedOp(a) == [IdleOp EXCEPT !.startedClosed = ~check_driver_state(a)]

\* extract_nodes_and_rels up to its first suspension
extract_nodes_and_rels(input_texts, g, shared, a, mw, constrained) ==
    fan_out(new_units(StartedOp(a), "extract", input_texts, mw), g, shared, a, mw, constrained)

\* summarize_nodes_and_rels up to its first suspension
summarize_nodes_and_rels(g, shared, a, mw, constrained) ==
    next_fan_out([StartedOp(a) EXCEPT !.kind = "summarize_nodes"], "summarize_nodes",
                 run_query(Context(g, shared), a,
                           [q |-> "candidate_nodes_summarization"], constrained),
                 a, mw, constrained)

\* lines 320-323: the levels to summarize
summary_levels(community_levels, summarize_all_levels) ==
    IF summarize_all_levels THEN 0..(community_levels - 1) ELSE {community_levels - 1}

\* lines 317-324, with the rows that leiden_query returned
hierarchy_statements(rows, summarize_all_levels) ==
    << [q |-> "community_hierarchy_query"],
       [q |-> "community_info_query",
        levels |-> summary_levels(rows[1].ranLevels, summarize_all_levels)] >>

\* summarize_communities from line 312 on; ctx1 is the context after leiden_query
after_leiden(o, ctx1, summarize_all_levels, a, mw, constrained) ==
    IF ctx1.err # NoError THEN stage_raised(o, ctx1)
    ELSE next_fan_out(o, "communities",
                      run_queries(ctx1, a,
                                  hierarchy_statements(ctx1.rows, summarize_all_levels),
                                  constrained),
                      a, mw, constrained)

\* summarize_communities up to its first suspension; out is what Leiden finds
summarize_communities(summarize_all_levels, out, g, shared, a, mw, constrained) ==
    after_leiden([StartedOp(a) EXCEPT !.kind = "communities", !.before = g.communities],
                 run_queries(Context(g, shared), a,
                             << [q |-> "drop_gds_graph_query"],
                                [q |-> "create_gds_graph_query"],
                                [q |-> "leiden_query", out |-> out] >>, constrained),
                 summarize_all_levels, a, mw, constrained)

(***************************************************************************)
(* The state after construction (MsGraphRAG.__init__).                     *)
(***************************************************************************)
\* the driver as __init__ receives it
OpenDriver == [closeCalls |-> 0, closed |-> FALSE, failures |-> 0]

NoTeardown ==
    [kind |-> "none", excIn |-> NoError, raised |-> NoError, hadDriver |-> FALSE,
     closedBefore |-> FALSE, closeCalls |-> 0, closeRaised |-> FALSE]

NoParse ==
    [pc |-> "none", records |-> <<>>, sep |-> "\n", marker |-> FALSE, output_str |-> <<>>,
     nodes |-> <<>>, relationships |-> <<>>]

(***************************************************************************)
(* MsGraphRAG.__init__.  A construction context holds the attributes set   *)
(* so far, the texts handed to self.query, what each of those calls        *)
(* raised, the number of driver calls, what __init__ raised and the        *)
(* default session_params dict.  answers[i] is what the store answers to   *)
(* the i-th call of self.query.                                            *)
(***************************************************************************)
\* lines 93-100: the attributes __init__ sets
InitAttrs == {"_driver", "model", "max_workers", "_database", "_openai_client"}

ProbeApoc == "CALL apoc.help('test')"
ProbeGds == "CALL gds.list('test')"
ConstraintChunk == "CREATE CONSTRAINT IF NOT EXISTS FOR (e:__Chunk__) REQUIRE e.id IS UNIQUE;"
ConstraintEntity == "CREATE CONSTRAINT IF NOT EXISTS FOR (e:__Entity__) REQUIRE e.name IS UNIQUE;"
ConstraintCommunity ==
    "CREATE CONSTRAINT IF NOT EXISTS FOR (e:__Community__) REQUIRE e.id IS UNIQUE;"

ConstraintQueries == {ConstraintChunk, ConstraintEntity, ConstraintCommunity}

\* raise ValueError(...)
ConfigError(what) == [kind |-> "ValueError", code |-> what, message |-> NoMessage]

after_init_query(c, text, r) ==
    [c EXCEPT !.queries = Append(@, text),
              !.outcomes = Append(@, r.raised),
              !.storeCalls = @ + r.autoCalls + r.sessOpened,
              !.raised = r.raised,
              !.shared = r.shared]

\* self.query(text) inside __init__; nothing runs once __init__ has raised
init_query(c, text, ans) ==
    IF c.raised # NoError THEN c
    ELSE after_init_query(c, text, query(c.attrs, DatabaseName, FALSE, EmptyDict,
                                         ans.auto, ans.sess, c.shared))

\* except: raise ValueError(...): whatever the probe raised becomes a ValueError
as_config_error(c, c2, what) ==
    IF c.raised = NoError /\ c2.raised # NoError
    THEN [c2 EXCEPT !.raised = ConfigError(what)]
    ELSE c2

probe_unchecked(c, text, ans, what) ==
    [init_query(c, text, ans) EXCEPT !.raised = c.raised]

\* lines 102-110: try: self.query(probe) except: raise ValueError
probe(c, text, ans, what) == as_config_error(c, init_query(c, text, ans), what)

\* lines 111-120
constraints(c, cc, answers) ==
    IF ~cc THEN c
    ELSE init_query(init_query(init_query(c, ConstraintChunk, answers[3]),
                               ConstraintEntity, answers[4]),
                    ConstraintCommunity, answers[5])

NewContext(a, shared) ==
    [attrs |-> a, queries |-> <<>>, outcomes |-> <<>>, storeCalls |-> 0,
     raised |-> NoError, shared |-> shared]

\* __init__; key says whether OPENAI_API_KEY is set in the environment
init(key, cc, answers, shared) ==
    IF ~key
    THEN [NewContext({}, shared) EXCEPT !.raised = ConfigError("OPENAI_API_KEY")]
    ELSE constraints(probe(probe(NewContext(InitAttrs, shared),
                                 ProbeApoc, answers[1], "APOC"),
                           ProbeGds, answers[2], "GDS"),
                     cc, answers)

\* __init__ has returned normally
Constructed ==
    [pc |-> "done", key |-> TRUE, answers |-> <<>>, queries |-> <<>>, outcomes |-> <<>>,
     storeCalls |-> 0, raised |-> NoError]

\* __init__ has not been called
NotConstructed == [Constructed EXCEPT !.pc = "new"]

\* the state a call of __init__ leaves; c is the context __init__ ended with
Built(c, key, cc, mw, answers) ==
    /\ attrs' = c.attrs
    /\ max_workers' = IF key THEN mw ELSE max_workers
    /\ create_constraints' = cc
    /\ defaultSessionParams' = c.shared
    /\ ctor' = [pc |-> IF c.raised = NoError THEN "done" ELSE "raised",
                key |-> key, answers |-> answers, queries |-> c.queries,
                outcomes |-> c.outcomes, storeCalls |-> c.storeCalls, raised |-> c.raised]


NoQuery ==
    [called |-> FALSE, given |-> FALSE, dict |-> EmptyDict, query |-> "", params |-> "",
     auto |-> [err |-> NoError, rows |-> <<>>],
     sess |-> [err |-> NoError, rows |-> <<>>],
     closedBefore |-> FALSE, sharedBefore |-> EmptyDict,
     res |-> QueryResult(0, 0, 0, "", <<>>, NoError, EmptyDict)]

Init ==
    /\ attrs = InitAttrs
    /\ max_workers \in 0..MaxWorkers
    /\ create_constraints \in BOOLEAN
    /\ defaultSessionParams = EmptyDict
    /\ lastQuery = NoQuery
    /\ op = IdleOp
    /\ graph = EmptyGraph
    /\ calls = 0
    /\ ctor = Constructed
    /\ parsed = NoParse
    /\ driver = OpenDriver
    /\ lastTeardown = NoTeardown

(***************************************************************************)
(* MsGraphRAG.close, __exit__ and __del__.                                 *)
(*                                                                         *)
(* close, __exit__ and __del__ return the attributes and the driver as the  *)
(* call leaves them and what the call raised.  fails says whether          *)
(* driver.close() raises when this call invokes it.                        *)
(***************************************************************************)
close(a, d, fails) ==
    IF "_driver" \notin a THEN [attrs |-> a, driver |-> d, raised |-> NoError]
    ELSE IF fails
    THEN [attrs |-> a,
          driver |-> [d EXCEPT !.closeCalls = @ + 1, !.failures = @ + 1],
          raised |-> DriverError]
    ELSE [attrs |-> a \ {"_driver"},
          driver |-> [d EXCEPT !.closeCalls = @ + 1, !.closed = TRUE],
          raised |-> NoError]

\* what leaves a with statement whose body raised exc (NoError: it did not)
\* and whose __exit__ ended as r, returning None
leaves_with(exc, r) == IF r.raised # NoError THEN r.raised ELSE exc

\* __exit__(exc_type, exc_val, exc_tb): self.close(), and None is returned
exit(a, d, exc, fails) ==
    [close(a, d, fails) EXCEPT !.raised = leaves_with(exc, close(a, d, fails))]

\* __del__: try: self.close() except Exception: pass
del(a, d, fails) == [close(a, d, fails) EXCEPT !.raised = NoError]

\* the state a teardown call leaves
Teardown(kind, exc, fails, r) ==
    /\ (fails => driver.failures < MaxCloseFailures)
    /\ attrs' = r.attrs
    /\ driver' = r.driver
    /\ lastTeardown' = [kind |-> kind, excIn |-> exc, raised |-> r.raised,
                        hadDriver |-> "_driver" \in attrs,
                        closedBefore |-> driver.closed,
                        closeCalls |-> r.driver.closeCalls - driver.closeCalls,
                        closeRaised |-> r.driver.failures > driver.failures]
    /\ UNCHANGED <<max_workers, create_constraints, defaultSessionParams, lastQuery, op,
                   graph, calls, ctor, parsed>>

CloseCall(fails) == Teardown("close", NoError, fails, close(attrs, driver, fails))

\* close() on a driver whose close() returns
Close == CloseCall(FALSE)

ExitExceptions ==
    { NoError, DriverError, ClosedError,
      [kind |-> "KeyboardInterrupt", code |-> "", message |-> NoMessage] }

ExitCall(exc, fails) == Teardown("exit", exc, fails, exit(attrs, driver, exc, fails))

DelCall(fails) == Teardown("del", NoError, fails, del(attrs, driver, fails))

CloseAny == \E fails \in BOOLEAN : CloseCall(fails)

Exit == \E exc \in ExitExceptions, fails \in BOOLEAN : ExitCall(exc, fails)

Del == \E fails \in BOOLEAN : DelCall(fails)

NextLifecycle == CloseAny \/ Exit \/ Del

(***************************************************************************)
(* A direct call of MsGraphRAG.query, with what the store answers.         *)
(***************************************************************************)
StoreMessages ==
    { NoMessage,
      Message(<<"must", "be", "run", "in", "an", "implicit", "transaction">>),
      Message(<<"executing", "in", "an", "open", "transaction", "is", "not", "possible">>),
      Message(<<"tried", "to", "execute", "in", "an", "explicit", "transaction">>),
      Message(<<"in", "an", "explicit", "transaction">>),
      Message(<<"invalid", "input">>) }

StoreErrors ==
    { Neo4jError(c, m) :
        c \in {ExecutionFailed, TransactionStartFailed, SemanticError, SyntaxError},
        m \in StoreMessages } \cup {DriverError}

SessionErrors == { Neo4jError(SyntaxError, Message(<<"invalid", "input">>)), DriverError }

SessionDicts == { EmptyDict, [fetch_size |-> "100"] }

QueryCall ==
    \E given \in BOOLEAN, dict \in SessionDicts, text \in {"q1", "q2"}, params \in {"p1"},
       autoErr \in StoreErrors \cup {NoError}, sessErr \in SessionErrors \cup {NoError} :
        LET auto == [err |-> autoErr, rows |-> <<"auto", text, params>>]
            sess == [err |-> sessErr, rows |-> <<"session", text, params>>]
            res == query(attrs, DatabaseName, given, dict, auto, sess, defaultSessionParams)
        IN /\ (~given => dict = EmptyDict)
           /\ lastQuery' = [called |-> TRUE, given |-> given, dict |-> dict,
                            query |-> text, params |-> params,
                            auto |-> auto, sess |-> sess,
                            closedBefore |-> ~check_driver_state(attrs),
                            sharedBefore |-> defaultSessionParams,
                            res |-> res]
           /\ defaultSessionParams' = res.shared
           /\ UNCHANGED <<attrs, max_workers, create_constraints, op, graph, calls>>
           /\ UNCHANGED <<ctor, parsed, driver, lastTeardown>>

InitAdapter == Init /\ max_workers = MaxWorkers /\ create_constraints

NextAdapter == QueryCall \/ Close

SpecAdapter == InitAdapter /\ [][NextAdapter]_vars

(***************************************************************************)
(* The stages.  A stage may be called once the previous call has returned  *)
(* or raised; units still running from a call that raised are dropped from *)
(* the model with it.                                                      *)
(***************************************************************************)
Returned == op.phase \in {"idle", "done", "raised"}

InputTexts == UNION { [1..n -> Texts] : n \in 0..MaxTexts }

Moved(next) ==
    /\ op' = next.op
    /\ graph' = next.g
    /\ defaultSessionParams' = next.shared
    /\ UNCHANGED <<attrs, max_workers, create_constraints, lastQuery>>
    /\ UNCHANGED <<ctor, parsed, driver, lastTeardown>>

Started(next) ==
    /\ Moved(next)
    /\ calls' = Min(calls + 1, MaxCalls)

ExtractNodesAndRels ==
    \E input_texts \in InputTexts :
        /\ Returned
        /\ Len(graph.chunks) + Len(input_texts) <= MaxChunks
        /\ Started(extract_nodes_and_rels(input_texts, graph, defaultSessionParams,
                                          attrs, max_workers, create_constraints))

SummarizeNodesAndRels ==
    /\ Returned
    /\ Started(summarize_nodes_and_rels(graph, defaultSessionParams,
                                        attrs, max_workers, create_constraints))

SummarizeCommunities ==
    \E summarize_all_levels \in BOOLEAN, out \in LeidenOutputs(graph) :
        /\ Returned
        /\ Started(summarize_communities(summarize_all_levels, out, graph,
                                         defaultSessionParams, attrs, max_workers,
                                         create_constraints))

Running == op.phase \in {"llm", "raised"}

\* async with semaphore, then self.achat: the unit takes a permit and its
\* request goes out
acquire(o, i) ==
    [o EXCEPT !.ustate[i] = "inflight",
              !.permits = IF o.bounded THEN @ - 1 ELSE @,
              !.llmCalls = @ + 1]

CanAcquireUnbounded(o, i) == o.ustate[i] = "pending"

CanAcquire(o, i) == o.ustate[i] = "pending" /\ (o.bounded => o.permits > 0)

LlmRequest ==
    \E i \in 1..Len(op.inputs) :
        /\ Running
        /\ CanAcquire(op, i)
        /\ op' = acquire(op, i)
        /\ UNCHANGED <<attrs, max_workers, create_constraints, defaultSessionParams,
                       lastQuery, graph, calls, ctor, parsed, driver, lastTeardown>>

release_leaks(o) == o.permits

\* leaving async with semaphore, by return or by exception
release(o) == IF o.bounded THEN o.permits + 1 ELSE o.permits

ended(i, e) == [unit |-> i, err |-> e]

unit_failed_retried(o, i, e) ==
    [o EXCEPT !.ustate[i] = "pending", !.permits = release(o)]

\* the unit's task ends with an exception: the permit goes back; the stage is
\* still suspended in its await
unit_failed(o, i, e) ==
    [o EXCEPT !.ustate[i] = "failed",
              !.permits = release(o),
              !.finished = Append(@, ended(i, e))]

\* the unit's task ends with a value: the permit goes back; the stage is still
\* suspended in its await
unit_returned(o, i, value) ==
    [o EXCEPT !.ustate[i] = "done",
              !.permits = release(o),
              !.produced[i] = value,
              !.finished = Append(@, ended(i, NoError))]

\* self.achat returns and the unit decodes the content
LlmRespond ==
    \E i \in 1..Len(op.inputs) : \E content \in ResponsesOf(op.kind) :
        LET out == process_unit(op.kind, op.inputs[i], content) IN
        /\ Running
        /\ op.ustate[i] = "inflight"
        /\ op' = IF out.ok THEN unit_returned(op, i, out.value)
                 ELSE unit_failed(op, i, DecodeError)
        /\ UNCHANGED <<attrs, max_workers, create_constraints, defaultSessionParams,
                       lastQuery, graph, calls, ctor, parsed, driver, lastTeardown>>

\* self.achat raises
LlmFail ==
    \E i \in 1..Len(op.inputs) :
        /\ Running
        /\ op.ustate[i] = "inflight"
        /\ op' = unit_failed(op, i, LlmError)
        /\ UNCHANGED <<attrs, max_workers, create_constraints, defaultSessionParams,
                       lastQuery, graph, calls, ctor, parsed, driver, lastTeardown>>

await_task_swallowing(o) ==
    LET t == Head(o.finished) IN
    [o EXCEPT !.finished = Tail(@),
              !.results = IF o.kind = "extract" /\ t.err = NoError
                          THEN Append(@, t.unit) ELSE @]

\* one await of the stage on what as_completed hands it: the exception of the
\* task is raised out of the stage, its value is kept (results.append in
\* extract_nodes_and_rels)
await_task(o) ==
    LET t == Head(o.finished) IN
    IF t.err # NoError
    THEN [o EXCEPT !.finished = Tail(@), !.phase = "raised", !.raised = t.err]
    ELSE [o EXCEPT !.finished = Tail(@),
                   !.results = IF o.kind = "extract" THEN Append(@, t.unit) ELSE @]

RECURSIVE await_tasks(_, _)

\* the awaits of one resumption of the stage: the first n of the tasks that
\* have ended, up to the first that raises
await_tasks(o, n) ==
    IF n = 0 \/ o.phase # "llm" THEN o ELSE await_tasks(await_task(o), n - 1)

all_awaited(o) ==
    /\ o.phase = "llm"
    /\ o.finished = <<>>
    /\ \A i \in 1..Len(o.inputs) : o.ustate[i] = "done"

\* the stage after a resumption: it goes on when it holds every unit's value,
\* and is suspended in its next await otherwise
resumed(o, g, shared, a, mw, constrained) ==
    IF all_awaited(o) THEN continue_stage(o, g, shared, a, mw, constrained)
    ELSE [op |-> o, g |-> g, shared |-> shared]

\* The stage resumes from its await, in a later iteration of the event loop
\* than the one in which the unit's task ended: it takes the tasks that
\* as_completed has queued by then.
AwaitTask ==
    \E n \in 1..Len(op.finished) :
        /\ op.phase = "llm"
        /\ Moved(resumed(await_tasks(op, n), graph, defaultSessionParams, attrs,
                         max_workers, create_constraints))
        /\ UNCHANGED calls

Next ==
    \/ (calls < MaxCalls /\ ExtractNodesAndRels)
    \/ (calls < MaxCalls /\ SummarizeNodesAndRels)
    \/ (calls < MaxCalls /\ SummarizeCommunities)
    \/ LlmRequest
    \/ LlmRespond
    \/ LlmFail
    \/ AwaitTask
    \/ Close

Spec == Init /\ [][Next]_vars

(***************************************************************************)
(* One stage invocation, on an empty store or on the store as the          *)
(* extraction of two texts leaves it.                                      *)
(***************************************************************************)
\* lines 185-194 for one text: the import of the relationships is not reached
\* when the import of the nodes raises
imported(g, text, content, constrained) ==
    LET output == parse_extraction_output(content)
        nodes == import_nodes_query(g, text, get_hash(text), output.nodes, constrained)
    IN IF nodes.err # NoError THEN g
       ELSE import_relationships_query(nodes.g, output.relationships).g

ExtractedGraph ==
    imported(imported(EmptyGraph, "a", FullResponse, TRUE), "b", FullResponse, TRUE)

InitStage ==
    /\ attrs = InitAttrs
    /\ max_workers \in 0..MaxWorkers
    /\ create_constraints \in BOOLEAN
    /\ defaultSessionParams = EmptyDict
    /\ lastQuery = NoQuery
    /\ op = IdleOp
    /\ graph \in {EmptyGraph, ExtractedGraph}
    /\ calls = 0
    /\ ctor = Constructed
    /\ parsed = NoParse
    /\ driver = OpenDriver
    /\ lastTeardown = NoTeardown

NextStage ==
    \/ (calls = 0 /\ ExtractNodesAndRels)
    \/ (calls = 0 /\ SummarizeNodesAndRels)
    \/ (calls = 0 /\ SummarizeCommunities)
    \/ LlmRequest
    \/ LlmRespond
    \/ LlmFail
    \/ AwaitTask
    \/ Close

SpecStage == InitStage /\ [][NextStage]_vars

\* The event loop runs every coroutine that is ready, the stage's own
\* continuation included, and every LLM request is answered or fails: weak
\* fairness of LlmRequest, of LlmRespond \/ LlmFail and of AwaitTask.  For the
\* last two, the state in which the action can take a step is written out.
SomeUnitInFlight ==
    Running /\ \E i \in 1..Len(op.inputs) : op.ustate[i] = "inflight"

SomeTaskEnded == op.phase = "llm" /\ op.finished # <<>>

FairStage ==
    /\ WF_vars(LlmRequest)
    /\ ([]<>~SomeUnitInFlight \/ []<><<LlmRespond \/ LlmFail>>_vars)
    /\ ([]<>~SomeTaskEnded \/ []<><<AwaitTask>>_vars)

SpecStageLive == SpecStage /\ FairStage

(***************************************************************************)
(* Runs of summarize_communities, one after the other, on the extracted    *)
(* store.                                                                  *)
(***************************************************************************)
InitCommunities ==
    /\ attrs = InitAttrs
    /\ max_workers = MaxWorkers
    /\ create_constraints = TRUE
    /\ defaultSessionParams = EmptyDict
    /\ lastQuery = NoQuery
    /\ op = IdleOp
    /\ graph = ExtractedGraph
    /\ calls = 0
    /\ ctor = Constructed
    /\ parsed = NoParse
    /\ driver = OpenDriver
    /\ lastTeardown = NoTeardown

NextCommunities ==
    \/ (calls < MaxCalls /\ SummarizeCommunities)
    \/ LlmRequest
    \/ LlmRespond
    \/ LlmFail
    \/ AwaitTask

SpecCommunities == InitCommunities /\ [][NextCommunities]_vars

(***************************************************************************)
(* The construction of an instance.  The default session_params dict is    *)
(* the one of the class: an earlier instance may have left a database key  *)
(* in it.                                                                  *)
(***************************************************************************)
CtorAnswers ==
    { [auto |-> [err |-> e, rows |-> <<>>], sess |-> [err |-> NoError, rows |-> <<>>]] :
        e \in { NoError,
                Neo4jError(ExecutionFailed,
                           Message(<<"must", "be", "run", "in", "an", "implicit",
                                     "transaction">>)),
                Neo4jError("Neo.ClientError.Procedure.ProcedureNotFound",
                           Message(<<"no", "procedure", "with", "that", "name">>)) } }

Construct ==
    \E key \in BOOLEAN, cc \in BOOLEAN, mw \in 0..MaxWorkers,
       answers \in [1..5 -> CtorAnswers] :
        /\ ctor.pc = "new"
        /\ Built(init(key, cc, answers, defaultSessionParams), key, cc, mw, answers)
        /\ UNCHANGED <<lastQuery, op, graph, calls, parsed, driver, lastTeardown>>

InitConstruct ==
    /\ attrs = {}
    /\ max_workers = 0
    /\ create_constraints = FALSE
    /\ defaultSessionParams \in {EmptyDict, [database |-> DatabaseName]}
    /\ lastQuery = NoQuery
    /\ op = IdleOp
    /\ graph = EmptyGraph
    /\ calls = 0
    /\ ctor = NotConstructed
    /\ parsed = NoParse
    /\ driver = OpenDriver
    /\ lastTeardown = NoTeardown

SpecConstruct == InitConstruct /\ [][Construct]_vars

(***************************************************************************)
(* A call of parse_extraction_output.  Its argument is put together from   *)
(* up to MaxRecords records of the pool, separated by sep and followed by  *)
(* the completion marker when marker is true.                              *)
(***************************************************************************)
Relationship(strength) ==
    <<"(", "\"relationship\"", ";", "A", ";", "B", ";", "knows", ";", strength, ")">>

StrengthTokens == {"8", "8.0", "8.5", "1e2", "inf", "nan", "strong"}

EntityLong == <<"(", "\"entity\"", ";", "A", ";", "Person", ";", "dA", ";", "more", ")">>
EntityUpper == <<"(", "'Entity'", ";", "B", ";", "Person", ";", "dB", ")">>
EntityBare == <<"entity", ";", "A", ";", "Person", ";", "dA">>
EntityTab == <<"(", "\"entity\"", "\t", "A", "\t", "Person", "\t", "dA", ")">>
EntityPipe == <<"(", "\"entity\"", ";", "A", "|", "B", ";", "Person", ")">>
RelationshipShort == <<"(", "\"relationship\"", ";", "A", ";", "B", ";", "knows", ")">>

RecordPool ==
    {EntityA, EntityB, EntityShort, EntityLong, EntityUpper, EntityBare, EntityTab,
     EntityPipe, EventA, RelationshipShort}
        \cup {Relationship(t) : t \in StrengthTokens}

Separators == {"\n", "|", RecordMarker}

RECURSIVE JoinWith(_, _)
JoinWith(records, sep) ==
    IF records = <<>> THEN <<>>
    ELSE IF Len(records) = 1 THEN records[1]
    ELSE Head(records) \o <<sep>> \o JoinWith(Tail(records), sep)

OutputStr(records, sep, marker) ==
    JoinWith(records, sep) \o (IF marker THEN <<CompletionMarker>> ELSE <<>>)

ParserInputs ==
    { [pc |-> "input", records |-> records, sep |-> sep, marker |-> marker,
       output_str |-> OutputStr(records, sep, marker),
       nodes |-> <<>>, relationships |-> <<>>] :
        records \in UNION { [1..n -> RecordPool] : n \in 0..MaxRecords },
        sep \in Separators, marker \in BOOLEAN }

Parsed(out) ==
    parsed' = [parsed EXCEPT !.pc = "done", !.nodes = out.nodes,
                             !.relationships = out.relationships]

ParseExtractionOutput ==
    /\ parsed.pc = "input"
    /\ Parsed(parse_extraction_output(parsed.output_str))
    /\ UNCHANGED <<attrs, max_workers, create_constraints, defaultSessionParams,
                   lastQuery, op, graph, calls, ctor, driver, lastTeardown>>

InitParser ==
    /\ attrs = InitAttrs
    /\ max_workers = MaxWorkers
    /\ create_constraints = TRUE
    /\ defaultSessionParams = EmptyDict
    /\ lastQuery = NoQuery
    /\ op = IdleOp
    /\ graph = EmptyGraph
    /\ calls = 0
    /\ ctor = Constructed
    /\ parsed \in ParserInputs
    /\ driver = OpenDriver
    /\ lastTeardown = NoTeardown

SpecParser == InitParser /\ [][ParseExtractionOutput]_vars

(***************************************************************************)
(* The teardown of one instance: any sequence of close(), context-manager  *)
(* exits and finalizer runs.                                               *)
(***************************************************************************)
SpecLifecycle == Init /\ [][NextLifecycle]_vars

(***************************************************************************)
(* Properties.                                                             *)
(***************************************************************************)

\* The class of store errors that calls for an explicit transaction.
RequiresExplicitTransaction(e) ==
    /\ e.kind = "Neo4jError"
    /\ ~e.message.isNone
    /\ \/ /\ e.code \in {ExecutionFailed, TransactionStartFailed}
          /\ Contains(ImplicitPhrase, e.message)
       \/ /\ e.code = SemanticError
          /\ (Contains(OpenPhrase, e.message) \/ Contains(ExplicitPhrase, e.message))

\* C1: when extract_nodes_and_rels writes to the store, the parsed result
\* paired with input_texts[k] is the one produced from the LLM response for
\* input_texts[k], whatever the completion order.
C1_ResultPairedWithItsInput ==
    (op.kind = "extract" /\ op.phase = "done") =>
        \A k \in 1..Len(op.inputs) :
            /\ import_statements(op)[2 * k - 1].text = op.inputs[k]
            /\ import_statements(op)[2 * k - 1].data = op.produced[k].nodes
            /\ import_statements(op)[2 * k].data = op.produced[k].relationships

\* C2: with max_workers = C > 0, at most C units of a stage invocation have
\* an outstanding LLM call.
InFlight(o) == Cardinality({i \in 1..Len(o.inputs) : o.ustate[i] = "inflight"})

C2_AtMostCInFlight == max_workers > 0 => InFlight(op) <= max_workers

C2_Witness ==
    /\ max_workers > 0
    /\ op.kind = "communities"
    /\ Len(op.inputs) > max_workers
    /\ InFlight(op) = max_workers
    /\ \E i \in 1..Len(op.inputs) : op.ustate[i] = "pending"

\* C3: a query without session options whose auto-committing attempt fails
\* with an error that requires an explicit transaction is run again, once,
\* with the same text and parameters through an explicit session; the rows
\* of that run are returned, or its error propagates.
C3_FallbackRunsOnce ==
    (/\ lastQuery.called /\ ~lastQuery.closedBefore /\ ~lastQuery.given
     /\ lastQuery.res.autoCalls = 1
     /\ RequiresExplicitTransaction(lastQuery.auto.err)) =>
        /\ lastQuery.res.sessRuns = 1
        /\ lastQuery.sess.err = NoError =>
              (lastQuery.res.raised = NoError /\ lastQuery.res.rows = lastQuery.sess.rows)
        /\ lastQuery.sess.err # NoError => lastQuery.res.raised = lastQuery.sess.err

\* C4: a query without session options attempts the auto-committing
\* execution first, whatever calls came before; the explicit session is
\* entered without that attempt only when the caller supplied session options.
C4_AutoCommitFirst ==
    (lastQuery.called /\ ~lastQuery.closedBefore) =>
        /\ ~lastQuery.given => lastQuery.res.autoCalls = 1
        /\ (lastQuery.res.sessOpened = 1 /\ lastQuery.res.autoCalls = 0) =>
              (lastQuery.given /\ DOMAIN lastQuery.dict # {})

\* C5: when the auto-committing attempt fails with an error outside the
\* retryable class, that error propagates unchanged, the query has been
\* executed exactly once and no explicit session is opened.
C5_OtherErrorsPropagate ==
    (/\ lastQuery.called
     /\ lastQuery.res.autoCalls = 1
     /\ lastQuery.auto.err # NoError
     /\ ~RequiresExplicitTransaction(lastQuery.auto.err)) =>
        /\ lastQuery.res.raised = lastQuery.auto.err
        /\ lastQuery.res.autoCalls = 1
        /\ lastQuery.res.sessOpened = 0
        /\ lastQuery.res.sessRuns = 0

C5_Witness ==
    /\ lastQuery.called
    /\ lastQuery.res.autoCalls = 1
    /\ lastQuery.auto.err.code = ExecutionFailed
    /\ ~lastQuery.auto.err.message.isNone
    /\ ~Contains(ImplicitPhrase, lastQuery.auto.err.message)
    /\ lastQuery.res.raised = lastQuery.auto.err

\* C6: an operation called on a closed instance fails at once with the
\* closed-instance error, issuing no LLM request and no graph-store call.
C6_ClosedInstanceRefuses ==
    op.startedClosed =>
        /\ op.llmCalls = 0
        /\ op.storeCalls = 0
        /\ op.phase = "raised"
        /\ op.raised = ClosedError

\* C7: extracting the same text more than once completes without error and
\* leaves one chunk node whose id is the content hash of the text.
C7_OneChunkPerText ==
    /\ \A i, j \in 1..Len(graph.chunks) :
          graph.chunks[i].id = graph.chunks[j].id => i = j
    /\ op.raised.code # ConstraintValidationFailed

\* C8: the community hierarchy is a forest: a community has at most one
\* IN_COMMUNITY edge to another community, and every such edge goes from
\* level i to level i + 1.
C8_HierarchyIsForest ==
    /\ \A c \in graph.commNodes :
          Cardinality({e \in graph.commComm : e.src = c.id}) <= 1
    /\ \A e \in graph.commComm : \A c, d \in graph.commNodes :
          (c.id = e.src /\ d.id = e.dst) => d.level = c.level + 1

\* C9: a run of the community builder on the level assignments the run
\* before it had leaves the community nodes, the entity-to-community edges
\* and the community-to-parent edges as they were.
Identities(nodes) == {[id |-> c.id, level |-> c.level, copy |-> c.copy] : c \in nodes}

C9_BuilderIdempotent ==
    [][(calls' = calls + 1 /\ calls >= 1 /\ op'.kind = "communities"
        /\ graph'.communities = graph.communities) =>
          /\ Identities(graph'.commNodes) = Identities(graph.commNodes)
          /\ graph'.entComm = graph.entComm
          /\ graph'.commComm = graph.commComm]_vars

C9_Witness ==
    /\ calls = 2
    /\ op.kind = "communities"
    /\ op.before = graph.communities
    /\ graph.commComm # {}
    /\ \E n \in Names : graph.communities[n] # <<>>

\* C10: there is at most one community node per (level, raw id), pairs that
\* differ in level or in raw id have different ids, the assignments of all
\* entities to one (level, raw id) resolve to one node, and the level of a
\* node is the level in its id.
DigitValue(ch) == CHOOSE d \in 0..9 : Digit(d) = ch

RECURSIVE ParseNat(_)
ParseNat(chars) ==
    IF chars = <<>> THEN 0
    ELSE 10 * ParseNat(SubSeq(chars, 1, Len(chars) - 1)) + DigitValue(chars[Len(chars)])

LevelInId(id) ==
    LET dash == CHOOSE i \in 1..Len(id) : id[i] = "-" /\ \A j \in 1..(i - 1) : id[j] # "-"
    IN ParseNat(SubSeq(id, 1, dash - 1))

C10_LevelQualifiedIdentity ==
    /\ \A c, d \in graph.commNodes : c.id = d.id => c = d
    /\ \A l1, l2 \in 0..(MaxLevels - 1) : \A r1, r2 \in 0..MaxRawId :
          community_id(l1, r1) = community_id(l2, r2) => (l1 = l2 /\ r1 = r2)
    /\ \A n \in Names : \A k \in 1..Len(graph.communities[n]) :
          Cardinality({c \in graph.commNodes :
                          c.id = community_id(k - 1, graph.communities[n][k])}) = 1
    /\ \A c \in graph.commNodes : c.level = LevelInId(c.id)

C10_Witness ==
    /\ graph.communities["A"] = <<0, 0>>
    /\ graph.communities["B"] = <<0, 0>>
    /\ Cardinality(graph.commNodes) = 2
    /\ \E c \in graph.commNodes : c.level = 1 /\ c.id = community_id(1, 0)

\* C11: __init__ raises a configuration error before any graph-store call
\* when the LLM credential is missing; it raises a configuration error when
\* the procedure probe or the graph-analytics probe fails, and then issues
\* no constraint query; constraint queries are issued only after both probes
\* succeeded and only when create_constraints is true.
ProbeFailed(i) == Len(ctor.outcomes) >= i /\ ctor.outcomes[i] # NoError

ProbeSucceeded(i) == Len(ctor.outcomes) >= i /\ ctor.outcomes[i] = NoError

C11_ConstructionChecks ==
    ctor.pc # "new" =>
        /\ ~ctor.key => /\ ctor.raised.kind = "ValueError"
                        /\ ctor.storeCalls = 0
                        /\ ctor.queries = <<>>
        /\ (ProbeFailed(1) \/ ProbeFailed(2)) =>
              /\ ctor.raised.kind = "ValueError"
              /\ \A i \in 1..Len(ctor.queries) : ctor.queries[i] \notin ConstraintQueries
        /\ ctor.key => /\ Len(ctor.queries) >= 1
                       /\ ctor.queries[1] = ProbeApoc
                       /\ ProbeSucceeded(1) => (Len(ctor.queries) >= 2 /\ ctor.queries[2] = ProbeGds)
        /\ \A i \in 1..Len(ctor.queries) :
              ctor.queries[i] \in ConstraintQueries =>
                  (create_constraints /\ ProbeSucceeded(1) /\ ProbeSucceeded(2) /\ i > 2)
        /\ (ctor.key /\ create_constraints /\ ProbeSucceeded(1) /\ ProbeSucceeded(2)) =>
              (Len(ctor.queries) >= 3 /\ ctor.queries[3] = ConstraintChunk)

C11_Witness ==
    /\ ctor.pc = "raised"
    /\ ctor.key
    /\ create_constraints
    /\ ProbeSucceeded(1)
    /\ ProbeFailed(2)
    /\ ctor.raised = ConfigError("GDS")

\* C12: a record whose tag is entity is emitted as an entity record iff it
\* has exactly 4 fields, a record whose tag is relationship is emitted as a
\* relationship record iff it has exactly 5 fields, every other record is
\* omitted, and every emitted record is in exactly one of the two outputs.
InputTokens ==
    token_lists(raw_records(without_completion_marker(parsed.output_str)),
                detect_tuple_delimiter(without_completion_marker(parsed.output_str)))

EntityFields(tokens) == rec_type(tokens[1]) = "entity" /\ Len(tokens) = 4

RelationshipFields(tokens) == rec_type(tokens[1]) = "relationship" /\ Len(tokens) = 5

C12_EmittedIffTagAndFieldCount ==
    parsed.pc = "done" =>
        /\ Len(parsed.nodes) = Len(SelectSeq(InputTokens, EntityFields))
        /\ Len(parsed.relationships) = Len(SelectSeq(InputTokens, RelationshipFields))
        /\ \A i \in 1..Len(parsed.nodes) :
              /\ parsed.nodes[i].record_type = "entity"
              /\ parsed.nodes[i].entity_name = SelectSeq(InputTokens, EntityFields)[i][2]
              /\ parsed.nodes[i].entity_type = SelectSeq(InputTokens, EntityFields)[i][3]
              /\ parsed.nodes[i].entity_description =
                    SelectSeq(InputTokens, EntityFields)[i][4]
        /\ \A i \in 1..Len(parsed.relationships) :
              /\ parsed.relationships[i].record_type = "relationship"
              /\ parsed.relationships[i].source_entity =
                    SelectSeq(InputTokens, RelationshipFields)[i][2]
              /\ parsed.relationships[i].target_entity =
                    SelectSeq(InputTokens, RelationshipFields)[i][3]
              /\ parsed.relationships[i].relationship_description =
                    SelectSeq(InputTokens, RelationshipFields)[i][4]

C12_Witness ==
    /\ parsed.pc = "done"
    /\ parsed.records = <<EntityLong, EntityUpper>>
    /\ parsed.sep = RecordMarker
    /\ Len(parsed.nodes) = 1
    /\ parsed.nodes[1].entity_name = "B"
    /\ parsed.relationships = <<>>

\* C13: parse_extraction_output never raises, and adding one malformed or
\* unknown record to well-formed records yields the entity records and the
\* relationship records of the input without it, in the same order.
WellFormedRecords == {EntityA, EntityB} \cup {Relationship(t) : t \in StrengthTokens}

MalformedRecords == {EntityShort, EntityLong, EventA, RelationshipShort, EntityPipe}

Without(records, k) == [i \in 1..(Len(records) - 1) |-> records[IF i < k THEN i ELSE i + 1]]

C13_BadRecordOnlyOmitted ==
    parsed.pc = "done" =>
        \A k \in 1..Len(parsed.records) :
            (/\ parsed.records[k] \in MalformedRecords
             /\ \A i \in 1..Len(parsed.records) :
                   i # k => parsed.records[i] \in WellFormedRecords) =>
                /\ parsed.nodes =
                      parse_extraction_output(
                          OutputStr(Without(parsed.records, k), parsed.sep,
                                    parsed.marker)).nodes
                /\ parsed.relationships =
                      parse_extraction_output(
                          OutputStr(Without(parsed.records, k), parsed.sep,
                                    parsed.marker)).relationships

\* C15 as stated: the strength of a 5-field relationship record is an
\* integer when the token is a number with no fractional part, a
\* floating-point number when it is a number with a fractional part, and
\* the token itself when it is not a number; the record is always emitted.
WholeNumberTokens == {"8", "8.0", "1e2"}

FractionalNumberTokens == {"8.5"}

NotANumberTokens == {"strong", "nan"}

StrengthTokenOf(i) == SelectSeq(InputTokens, RelationshipFields)[i][5]

C15_StrengthByNumberClass ==
    parsed.pc = "done" =>
        /\ Len(parsed.relationships) = Len(SelectSeq(InputTokens, RelationshipFields))
        /\ \A i \in 1..Len(parsed.relationships) :
              /\ StrengthTokenOf(i) \in WholeNumberTokens =>
                    parsed.relationships[i].relationship_strength.type = "int"
              /\ StrengthTokenOf(i) \in FractionalNumberTokens =>
                    parsed.relationships[i].relationship_strength.type = "float"
              /\ StrengthTokenOf(i) \in NotANumberTokens =>
                    parsed.relationships[i].relationship_strength =
                        [type |-> "str", value |-> StrengthTokenOf(i)]

\* C15 as amended: the strength is an integer when float() accepts the
\* token and the value is finite with no fractional part, a floating-point
\* number when float() accepts it and the value has a fractional part or is
\* infinite or NaN, and the token itself when float() rejects it; the record
\* is always emitted.
IntegerValue(token) ==
    CASE token \in {"8", "8.0"} -> "8"
      [] token = "1e2" -> "100"

AcceptedNotWholeTokens == {"8.5", "inf", "nan"}

RejectedTokens == {"strong"}

C15_StrengthByFloatLexing ==
    parsed.pc = "done" =>
        /\ Len(parsed.relationships) = Len(SelectSeq(InputTokens, RelationshipFields))
        /\ \A i \in 1..Len(parsed.relationships) :
              /\ StrengthTokenOf(i) \in
                    WholeNumberTokens \cup AcceptedNotWholeTokens \cup RejectedTokens
              /\ StrengthTokenOf(i) \in WholeNumberTokens =>
                    parsed.relationships[i].relationship_strength =
                        [type |-> "int", value |-> IntegerValue(StrengthTokenOf(i))]
              /\ StrengthTokenOf(i) \in AcceptedNotWholeTokens =>
                    parsed.relationships[i].relationship_strength =
                        [type |-> "float", value |-> StrengthTokenOf(i)]
              /\ StrengthTokenOf(i) \in RejectedTokens =>
                    parsed.relationships[i].relationship_strength =
                        [type |-> "str", value |-> StrengthTokenOf(i)]

C15_Witness ==
    /\ parsed.pc = "done"
    /\ parsed.records = <<Relationship("nan"), Relationship("8.0")>>
    /\ parsed.relationships[1].relationship_strength = [type |-> "float", value |-> "nan"]
    /\ parsed.relationships[2].relationship_strength = [type |-> "int", value |-> "8"]

\* C14: over any sequence of close(), context-manager exits and
\* finalizer runs, the first of them closes the driver and invokes its
\* close exactly once, every later one is a no-op that does not raise, and
\* an exit never suppresses the exception that caused it.
C14_ClosedOnceByFirst ==
    /\ driver.closeCalls <= 1
    /\ lastTeardown.kind # "none" => (driver.closed /\ driver.closeCalls = 1)
    /\ (lastTeardown.kind # "none" /\ lastTeardown.closedBefore) =>
          (lastTeardown.closeCalls = 0 /\ lastTeardown.raised = lastTeardown.excIn)
    /\ (lastTeardown.kind = "exit" /\ lastTeardown.excIn # NoError) =>
          lastTeardown.raised # NoError

ExtractAndSummarizeKinds == {"extract", "summarize_nodes", "summarize_rels"}

AllUnitsDone(o) == \A i \in 1..Len(o.inputs) : o.ustate[i] = "done"

SomeUnitFailed(o) == \E i \in 1..Len(o.inputs) : o.ustate[i] = "failed"

Awaiting(o, i) == \E k \in 1..Len(o.finished) : o.finished[k].unit = i

\* C16: in extract_nodes_and_rels and summarize_nodes_and_rels a step writes
\* to the graph store only when every LLM unit of the invocation has
\* completed and the stage holds every value, so the store is as the
\* invocation found it while units are outstanding; when a unit has failed
\* the store stays unchanged and the stage never completes: it is still
\* suspended with the failed task waiting for its await, or it has raised an
\* error of a unit.
C16_WritesAfterAllUnits ==
    [][ op'.kind \in ExtractAndSummarizeKinds =>
          /\ graph' # graph =>
                /\ op'.phase \in {"done", "raised"}
                /\ AllUnitsDone(op')
                /\ op'.finished = <<>>
          /\ op'.phase = "llm" => graph' = graph
          /\ SomeUnitFailed(op') =>
                /\ graph' = graph
                /\ op'.phase \in {"llm", "raised"}
                /\ op'.phase = "llm" =>
                      \A i \in 1..Len(op'.inputs) :
                          op'.ustate[i] = "failed" => Awaiting(op', i)
                /\ op'.phase = "raised" => op'.raised \in {LlmError, DecodeError} ]_vars

C16_Witness ==
    /\ op.kind = "summarize_rels"
    /\ op.phase = "raised"
    /\ op.raised = LlmError
    /\ SomeUnitFailed(op)
    /\ op.llmCalls >= 2
    /\ Len(graph.chunks) = 2
    /\ \A n \in Names : graph.summary[n] = "null"
    /\ graph.sumRels = <<>>

AllUnitsFinished(o) == \A i \in 1..Len(o.inputs) : o.ustate[i] \in {"done", "failed"}

\* C17: when summarize_communities raised the decode failure of one
\* community and all its units have finished, the report of every sibling
\* whose response decoded is on that sibling's community node.
C17_SiblingReportsWritten ==
    (/\ op.kind = "communities"
     /\ op.phase = "raised"
     /\ op.raised = DecodeError
     /\ AllUnitsFinished(op)) =>
        \A i \in 1..Len(op.inputs) :
            op.ustate[i] = "done" =>
                \E c \in graph.commNodes :
                    /\ c.id = op.inputs[i].communityId
                    /\ c.report = op.produced[i].community

\* the entities with more than one description
EntitiesToSummarize(g) == {n \in SeqToSet(g.entOrder) : Len(g.description[n]) > 1}

\* the RELATIONSHIP edges that join the two entities of a pair
EdgesOfPair(g, pair) ==
    {i \in 1..Len(g.rels) : {g.rels[i].source, g.rels[i].target} = pair}

EntityPairs(g) == {{s, t} : s, t \in SeqToSet(g.entOrder)}

\* the pairs joined by more than one edge
PairsToSummarize(g) == {pair \in EntityPairs(g) : Cardinality(EdgesOfPair(g, pair)) > 1}

\* the summaries of the SUMMARIZED_RELATIONSHIP edges between a pair
SummariesOfPair(g, pair) ==
    {g.sumRels[i].summary :
        i \in {k \in 1..Len(g.sumRels) : {g.sumRels[k].source, g.sumRels[k].target} = pair}}

\* C18: an invocation of summarize_nodes_and_rels never makes more LLM calls
\* than there are entities with more than one description and pairs with
\* more than one edge; when it has completed it has made one call for each
\* of those and none for anything else, every such entity and pair carries
\* the summary the LLM gave for it, every entity with exactly one
\* description carries that description as its summary, and every pair with
\* exactly one edge has a summarized edge carrying that edge's description.
C18_OneCallPerCandidateAndCopyThrough ==
    /\ op.kind \in {"summarize_nodes", "summarize_rels"} =>
          op.llmCalls <= Cardinality(EntitiesToSummarize(graph))
                           + Cardinality(PairsToSummarize(graph))
    /\ (op.kind = "summarize_rels" /\ op.phase = "done") =>
          /\ op.llmCalls = Len(op.summaries) + Len(op.produced)
          /\ Len(op.summaries) = Cardinality(EntitiesToSummarize(graph))
          /\ {op.summaries[i].entity : i \in 1..Len(op.summaries)}
                = EntitiesToSummarize(graph)
          /\ Len(op.produced) = Cardinality(PairsToSummarize(graph))
          /\ {{op.produced[i].source, op.produced[i].target} : i \in 1..Len(op.produced)}
                = PairsToSummarize(graph)
          /\ \A i \in 1..Len(op.summaries) :
                graph.summary[op.summaries[i].entity] = op.summaries[i].summary
          /\ \A i \in 1..Len(op.produced) :
                SummariesOfPair(graph, {op.produced[i].source, op.produced[i].target})
                  = {op.produced[i].summary}
          /\ \A n \in SeqToSet(graph.entOrder) :
                Len(graph.description[n]) = 1 => graph.summary[n] = graph.description[n][1]
          /\ \A pair \in EntityPairs(graph) :
                \A i \in EdgesOfPair(graph, pair) :
                    EdgesOfPair(graph, pair) = {i} =>
                        graph.rels[i].description \in SummariesOfPair(graph, pair)

C18_Witness ==
    /\ op.kind = "summarize_rels"
    /\ op.phase = "done"
    /\ op.llmCalls = 2
    /\ Len(graph.description["A"]) = 2
    /\ graph.summary["A"] \in SummaryResponses
    /\ Len(graph.description["B"]) = 1
    /\ graph.summary["B"] = graph.description["B"][1]
    /\ SummariesOfPair(graph, {"A", "B"}) \subseteq SummaryResponses
    /\ SummariesOfPair(graph, {"A", "B"}) # {}

\* C19: every entity that has a community assignment has exactly one direct
\* IN_COMMUNITY edge, and it points to the level-0 community that the
\* entity's current communities[0] names.
C19_OneDirectCommunityEdge ==
    \A n \in Names :
        graph.communities[n] # <<>> =>
            {e.dst : e \in {d \in graph.entComm : d.src = n}}
              = {community_id(0, graph.communities[n][1])}

\* C20: when summarize_nodes_and_rels has completed, every entity node of
\* the store has a summary.
C20_EveryEntitySummarized ==
    (op.kind = "summarize_rels" /\ op.phase = "done") =>
        \A n \in SeqToSet(graph.entOrder) : graph.summary[n] # "null"

UnitIndices == 1..MaxTexts

Waiting(i) == i <= Len(op.inputs) /\ op.phase \in {"llm", "raised"} /\ op.ustate[i] = "pending"

\* C21: with a ceiling of at least one, a stage invocation that waits for
\* its units eventually returns or raises, and a unit that waits for a
\* permit does not wait forever.
C21_StageReturnsOrRaises ==
    /\ (op.phase = "llm" /\ max_workers >= 1) ~> (op.phase \in {"done", "raised"})
    /\ \A i \in UnitIndices : (Waiting(i) /\ max_workers >= 1) ~> ~Waiting(i)

C21_Witness ==
    /\ max_workers = 1
    /\ op.bounded
    /\ op.phase = "raised"
    /\ op.ustate = <<"failed", "done">>
    /\ op.permits = 1

\* the units of the fan-out that have issued their request
Requested(o) == {i \in 1..Len(o.inputs) : o.ustate[i] # "pending"}

\* the requests of the fan-outs that the invocation has behind it
EarlierRequests(o) == IF o.kind = "summarize_rels" THEN Len(o.summaries) ELSE 0

\* a step inside one fan-out of one invocation
SameFanOut == calls' = calls /\ op'.kind = op.kind /\ op.kind # "none"

\* C22: a unit issues its LLM request once: a step that issues a request
\* takes one pending unit in flight, a unit that returned or failed stays as
\* it is, and the requests of an invocation are one per unit that left
\* pending; a stage that completed holds one result for each of its units.
C22_OneRequestPerUnit ==
    [][ /\ SameFanOut =>
              /\ op'.inputs = op.inputs
              /\ \A i \in 1..Len(op.inputs) :
                    /\ op.ustate[i] \in {"done", "failed"} => op'.ustate[i] = op.ustate[i]
                    /\ op.ustate[i] = "inflight" => op'.ustate[i] # "pending"
              /\ op'.llmCalls - op.llmCalls
                    = Cardinality(Requested(op') \ Requested(op))
              /\ op'.llmCalls - op.llmCalls <= 1
        /\ op'.kind # "none" =>
              op'.llmCalls = EarlierRequests(op') + Cardinality(Requested(op'))
        /\ op'.phase = "done" =>
              /\ \A i \in 1..Len(op'.inputs) : op'.ustate[i] = "done"
              /\ Len(op'.produced) = Len(op'.inputs)
              /\ \A i \in 1..Len(op'.inputs) : op'.produced[i] # <<>>
              /\ op'.kind = "extract" =>
                    /\ Len(op'.results) = Len(op'.inputs)
                    /\ SeqToSet(op'.results) = 1..Len(op'.inputs)
              /\ op'.kind = "communities" =>
                    op'.ret = <<"Generated", Len(op'.inputs), "community summaries">> ]_vars

C22_Witness ==
    /\ op.kind = "extract"
    /\ op.phase = "done"
    /\ Len(op.inputs) = 2
    /\ op.llmCalls = 2
    /\ Len(op.results) = 2

\* the relationship records that the units of the invocation parsed
ParsedRelationships(o) ==
    SumOver(1..Len(o.inputs), [i \in 1..Len(o.inputs) |-> Len(o.produced[i].relationships)])

\* C23: the step in which extract_nodes_and_rels completes adds one
\* RELATIONSHIP edge for every relationship record that its units parsed,
\* leaves the edges that were there as they were, and returns a message that
\* reports that number.
C23_OneNewEdgePerRecord ==
    [][ (op'.kind = "extract" /\ op'.phase = "done" /\ op' # op) =>
          /\ Len(graph'.rels) = Len(graph.rels) + ParsedRelationships(op')
          /\ SubSeq(graph'.rels, 1, Len(graph.rels)) = graph.rels
          /\ op'.ret = <<"Successfuly extracted and imported", ParsedRelationships(op'),
                         "relationships">> ]_vars

C23_Witness ==
    /\ op.kind = "extract"
    /\ op.phase = "done"
    /\ op.ret[2] = 2
    /\ Len(graph.rels) = 2
    /\ graph.rels[1] = graph.rels[2]

NoDuplicates(seq) == \A i, j \in 1..Len(seq) : seq[i] = seq[j] => i = j

IsPrefix(s, t) == Len(s) <= Len(t) /\ SubSeq(t, 1, Len(s)) = s

\* the entity records named n in the outputs of the first j units that the
\* import loop of the invocation took
ImportedEntityRecords(o, n, j) ==
    SumOver(1..j, [k \in 1..j |->
                      Len(SelectSeq(o.produced[o.results[k]].nodes,
                                    LAMBDA rec : rec.entity_name = n))])

\* C24: there is one entity node per name, the ends of every RELATIONSHIP
\* edge are entity nodes, no step removes or changes an element of a
\* description list, and the import loop of extract_nodes_and_rels adds to
\* the list of a name one element for every entity record of that name in
\* the outputs it imported (all of them when the invocation completes);
\* no other step changes a description list.
C24_OneNodePerNameDescriptionsAccumulate ==
    [][ /\ NoDuplicates(graph.entOrder) /\ NoDuplicates(graph'.entOrder)
        /\ IsPrefix(graph.entOrder, graph'.entOrder)
        /\ \A i \in 1..Len(graph'.rels) :
              {graph'.rels[i].source, graph'.rels[i].target} \subseteq SeqToSet(graph'.entOrder)
        /\ \A n \in Names :
              /\ IsPrefix(graph.description[n], graph'.description[n])
              /\ graph'.description[n] # <<>> => n \in SeqToSet(graph'.entOrder)
        /\ IF op'.kind = "extract" /\ op'.phase \in {"done", "raised"} /\ op' # op
           THEN \E j \in 0..Len(op'.results) :
                    /\ op'.phase = "done" => j = Len(op'.inputs)
                    /\ \A n \in Names :
                          Len(graph'.description[n])
                            = Len(graph.description[n]) + ImportedEntityRecords(op', n, j)
           ELSE graph'.description = graph.description ]_vars

C24_Witness ==
    /\ op.kind = "summarize_rels"
    /\ op.phase = "done"
    /\ graph.entOrder = <<"A", "B">>
    /\ Len(graph.description["A"]) = 2
    /\ graph.description["B"] = <<>>
    /\ Len(graph.rels) = 2

\* L, the number of levels that the detection of the run wrote
DetectedLevels(g) == Len(g.communities[CHOOSE n \in Names : g.communities[n] # <<>>])

SelectedLevels(g, summarize_all_levels) ==
    IF summarize_all_levels THEN 0..(DetectedLevels(g) - 1) ELSE {DetectedLevels(g) - 1}

\* the entities that the detection put into the community raw of level l
MemberEntities(g, l, raw) ==
    {n \in Names : Len(g.communities[n]) > l /\ g.communities[n][l + 1] = raw}

\* the selected communities that have more than one member entity
CommunitiesToReport(g, summarize_all_levels) ==
    {community_id(p[1], p[2]) :
        p \in {q \in SelectedLevels(g, summarize_all_levels) \X (0..MaxRawId) :
                   Cardinality(MemberEntities(g, q[1], q[2])) > 1}}

RequestedCommunities(o) == {o.inputs[i].communityId : i \in 1..Len(o.inputs)}

\* C25: the communities for which summarize_communities requests a report
\* are, each once, the communities of the coarsest level (or of every
\* level, when all levels are summarized) that have more than one member
\* entity, and the count it returns is their number.
C25_ReportsForSelectedCommunities ==
    (op.kind = "communities" /\ op.phase \in {"llm", "done"}) =>
        /\ Len(op.inputs) = Cardinality(RequestedCommunities(op))
        /\ RequestedCommunities(op) \in {CommunitiesToReport(graph, TRUE),
                                          CommunitiesToReport(graph, FALSE)}
        /\ op.phase = "done" => op.ret[2] = Cardinality(RequestedCommunities(op))

====
